---------------------------- MODULE Spec2Model ----------------------------
(***************************************************************************)
(* A model of the ZwiftPower monitor (src/monitor.py): one check-and-notify *)
(* cycle of main(), the snapshot files it keeps between cycles, the webhook *)
(* dispatch of notify(), and the pure functions stabilise_html, diff_rows,  *)
(* table_to_markdown, rank_arrow and build_messages.                        *)
(*                                                                          *)
(* Text is modelled by TLA+ strings, which TLC treats as sequences of       *)
(* characters (Len, SubSeq, \o).  The non-ASCII marks the program prints    *)
(* are written with ASCII stand-ins of the same length:                     *)
(*   "+" for the heavy plus, "-" for the heavy minus, "*!" for the          *)
(*   eight-spoked asterisk with its variation selector (two code points),   *)
(*   ">" for the right arrow, "^" and "v" for the up and down arrows,       *)
(*   "Y" for the check mark, "X" for the cross mark, and "'" for the        *)
(*   backquote of a code fence.                                             *)
(***************************************************************************)
EXTENDS Integers, Sequences, FiniteSets, TLC

VARIABLES
    \* --- stabilise_html applied to a bounded input (SpecStab)
    stab_pc, stab_x, stab_once, stab_twice,
    \* --- diff_rows applied to bounded row lists (SpecDiff)
    df_pc, df_prev, df_curr, df_out,
    \* --- build_messages applied to bounded datasets (SpecRender)
    rn_pc, rn_headers, rn_prev, rn_curr, rn_msg,
    \* --- the monitor's cycles (Spec)
    webhooks,        \* which of the three webhook URLs the environment sets
    cache_file,      \* last_hash.txt
    snapshot_json,   \* last_table.json
    snapshot_html,   \* last_table.html
    pc,              \* where main() is; "start": no process is running
    cycle,           \* the number of runs started so far
    loc,             \* main()'s locals
    sent, ni,        \* notify()'s locals: the flag, the channel being tried
    posts,           \* the requests.post calls of this run, in order
    stdout,          \* the lines this run has printed
    writes,          \* how often this run has written each store file
    store0,          \* the store files as this run found them
    notified         \* the fingerprints notify() was ever called for

stab_vars == <<stab_pc, stab_x, stab_once, stab_twice>>

diff_vars == <<df_pc, df_prev, df_curr, df_out>>

render_vars == <<rn_pc, rn_headers, rn_prev, rn_curr, rn_msg>>

cycle_vars == <<webhooks, cache_file, snapshot_json, snapshot_html, pc, cycle,
                loc, sent, ni, posts, stdout, writes, store0, notified>>

vars == <<stab_vars, diff_vars, render_vars, cycle_vars>>

None == "<None>"

-----------------------------------------------------------------------------
(* Bounds of the model.                                                     *)

MaxFrags == 3

MaxRows == 2

MaxRenderRows == 2

MaxCycles == 3

-----------------------------------------------------------------------------
(* Text helpers: Python's str and re primitives the program uses.           *)

Ch(s, i) == SubSeq(s, i, i)

Quote == "\""

\* the characters Python's \s and str.strip() treat as whitespace (ASCII part)
IsSpace(c) == c \in {" ", "\n", "\t", "\r"}

Min(a, b) == IF a < b THEN a ELSE b

StartsAt(s, i, lit) ==
    /\ i + Len(lit) - 1 <= Len(s)
    /\ SubSeq(s, i, i + Len(lit) - 1) = lit

\* the first position at or after i that holds no whitespace (Len(s)+1: none)
RECURSIVE skip_left(_, _)
skip_left(s, i) ==
    IF i <= Len(s) /\ IsSpace(Ch(s, i)) THEN skip_left(s, i + 1) ELSE i

\* the last position at or before i that holds no whitespace (0: none)
RECURSIVE skip_right(_, _)
skip_right(s, i) ==
    IF i >= 1 /\ IsSpace(Ch(s, i)) THEN skip_right(s, i - 1) ELSE i

\* str.strip(): drop leading and trailing whitespace
strip(s) == SubSeq(s, skip_left(s, 1), skip_right(s, Len(s)))

\* str.rstrip()
rstrip(s) == SubSeq(s, 1, skip_right(s, Len(s)))

\* the class [a-zA-Z0-9\-] of the data-* pattern
NameChars == "abcdefghijklmnopqrstuvwxyzABCDEFGHIJKLMNOPQRSTUVWXYZ0123456789-"

IsNameChar(c) == \E k \in 1..Len(NameChars) : Ch(NameChars, k) = c

\* "[^"]+" starting at position v (just after the opening quote): the position
\* of the closing quote, or 0 when the value is empty or never closed
ValueEnd(s, v) ==
    LET qs == {q \in v..Len(s) : Ch(s, q) = Quote}
    IN  IF qs = {} THEN 0
        ELSE LET q == CHOOSE q \in qs : \A r \in qs : q <= r
             IN  IF q > v THEN q ELSE 0

\* a match of  lit"[^"]+"  at position i, lit being  name="  : its last
\* position, or 0 when there is no match at i
AttrMatchEnd(lit, s, i) ==
    IF StartsAt(s, i, lit) THEN ValueEnd(s, i + Len(lit)) ELSE 0

\* a match of  data-[a-zA-Z0-9\-]+="[^"]+"  at position i
DataMatchEnd(s, i) ==
    IF ~StartsAt(s, i, "data-") THEN 0
    ELSE LET n0   == i + Len("data-")
             stop == {j \in n0..Len(s) : ~IsNameChar(Ch(s, j))}
         IN  IF stop = {} THEN 0
             ELSE LET e == CHOOSE j \in stop : \A k \in stop : j <= k
                  IN  IF e > n0 /\ StartsAt(s, e, "=\"")
                      THEN ValueEnd(s, e + 2)
                      ELSE 0

MatchEnd(pat, s, i) ==
    IF pat = "data-" THEN DataMatchEnd(s, i) ELSE AttrMatchEnd(pat, s, i)

\* re.sub(pattern, '', s): one left-to-right pass over s, removing each
\* leftmost non-overlapping match; the scan resumes after the match in the
\* ORIGINAL text, so text joined by a removal is not scanned again
RECURSIVE re_sub_remove(_, _, _)
re_sub_remove(pat, s, i) ==
    IF i > Len(s) THEN ""
    ELSE LET e == MatchEnd(pat, s, i)
         IN  IF e > 0 THEN re_sub_remove(pat, s, e + 1)
             ELSE Ch(s, i) \o re_sub_remove(pat, s, i + 1)

\* re.sub(r'\s{2,}', ' ', s)
RECURSIVE re_sub_spaces(_, _)
re_sub_spaces(s, i) ==
    IF i > Len(s) THEN ""
    ELSE IF ~IsSpace(Ch(s, i)) THEN Ch(s, i) \o re_sub_spaces(s, i + 1)
    ELSE LET stop == {j \in i..Len(s) : ~IsSpace(Ch(s, j))}
             e    == IF stop = {} THEN Len(s) + 1
                     ELSE CHOOSE j \in stop : \A k \in stop : j <= k
         IN  IF e - i >= 2 THEN " " \o re_sub_spaces(s, e)
             ELSE Ch(s, i) \o re_sub_spaces(s, i + 1)

stabilise_html(html) ==
    LET s1 == re_sub_remove("id=\"", html, 1)
        s2 == re_sub_remove("data-", s1, 1)
        s3 == re_sub_remove("datetime=\"", s2, 1)
        s4 == re_sub_remove("time=\"", s3, 1)
        s5 == re_sub_spaces(s4, 1)
    IN  strip(s5)

-----------------------------------------------------------------------------
(* Python values: None, dict.get, dicts in insertion order.                 *)

\* an optional value: Python's None, or a value
NoneVal == [isNone |-> TRUE]

Some(v) == [isNone |-> FALSE, val |-> v]

\* r.get(k, dflt) on a row (a mapping from column name to cell text)
get(r, k, dflt) == IF k \in DOMAIN r THEN r[k] ELSE dflt

\* r.get(a) or r.get(b) or "(unknown)": the first non-empty of the two
label_of(r) ==
    IF get(r, "Name", "") # "" THEN r["Name"]
    ELSE IF get(r, "ZID", "") # "" THEN r["ZID"]
    ELSE "(unknown)"

\* a dict is the sequence of its <<key, value>> items in insertion order
dict_has(d, k) == \E i \in 1..Len(d) : d[i][1] = k

dict_get(d, k) == d[CHOOSE i \in 1..Len(d) : d[i][1] = k][2]

\* d[k] = v: a present key keeps its place and takes the new value
dict_put(d, k, v) ==
    IF dict_has(d, k)
    THEN [i \in 1..Len(d) |-> IF d[i][1] = k THEN <<k, v>> ELSE d[i]]
    ELSE Append(d, <<k, v>>)

\* the column names of the model in sorted (code point) order
SortedFields == << "15s power", "15s w/kg", "20m power", "20m w/kg",
                   "Name", "Rank", "Status", "Team", "ZID" >>

\* json.dumps(r, sort_keys=True) for a row of plain ASCII text without quotes
RECURSIVE json_items(_, _, _)
json_items(r, i, first) ==
    IF i > Len(SortedFields) THEN ""
    ELSE LET k == SortedFields[i]
         IN  IF k \in DOMAIN r
             THEN (IF first THEN "" ELSE ", ")
                  \o Quote \o k \o Quote \o ": " \o Quote \o r[k] \o Quote
                  \o json_items(r, i + 1, FALSE)
             ELSE json_items(r, i + 1, first)

json_dumps(r) == "{" \o json_items(r, 1, TRUE) \o "}"

-----------------------------------------------------------------------------
(* rank_arrow and diff_rows.                                                *)

Digits == "0123456789"

IsDigit(c) == \E k \in 1..Len(Digits) : Ch(Digits, k) = c

DigitVal(c) == (CHOOSE k \in 1..Len(Digits) : Ch(Digits, k) = c) - 1

\* re.sub(r"[^\d]", "", s)
RECURSIVE only_digits(_, _)
only_digits(s, i) ==
    IF i > Len(s) THEN ""
    ELSE (IF IsDigit(Ch(s, i)) THEN Ch(s, i) ELSE "") \o only_digits(s, i + 1)

RECURSIVE int_of(_, _)
int_of(s, n) ==
    IF n = 0 THEN 0 ELSE int_of(s, n - 1) * Len(Digits) + DigitVal(Ch(s, n))

\* to_int: the digits of s as a number, or -1 for None (no digit at all)
to_int(s) ==
    LET t == only_digits(s, 1) IN IF t = "" THEN -1 ELSE int_of(t, Len(t))

rank_arrow(old_rank, new_rank) ==
    LET o == to_int(old_rank)
        n == to_int(new_rank)
    IN  IF o = -1 \/ n = -1 THEN ">"
        ELSE IF n < o THEN "^"
        ELSE IF n > o THEN "v"
        ELSE ">"

key_fields == <<"ZID", "Name">>

compare_fields ==
    <<"Rank", "Status", "20m w/kg", "20m power", "15s w/kg", "15s power">>

\* a slip in key_for: the key field is tested and used untrimmed
key_for_untrimmed(r) ==
    LET hits == {i \in 1..Len(key_fields) : get(r, key_fields[i], "") # ""}
    IN  IF hits = {} THEN <<"_row", json_dumps(r)>>
        ELSE LET i == CHOOSE i \in hits : \A j \in hits : i <= j
             IN  <<key_fields[i], get(r, key_fields[i], "")>>

key_for(r) ==
    LET hits == {i \in 1..Len(key_fields) : strip(get(r, key_fields[i], "")) # ""}
    IN  IF hits = {} THEN <<"_row", json_dumps(r)>>
        ELSE LET i == CHOOSE i \in hits : \A j \in hits : i <= j
             IN  <<key_fields[i], strip(get(r, key_fields[i], ""))>>

\* {key_for(r): r for r in rows}
RECURSIVE index_rows(_, _)
index_rows(rows, n) ==
    IF n = 0 THEN <<>>
    ELSE dict_put(index_rows(rows, n - 1), key_for(rows[n]), rows[n])

\* the tracked fields in which old and new differ, in compare_fields order
field_differs(ov, nv) == ov # nv

raw_changes(old, new) ==
    SelectSeq(compare_fields,
              LAMBDA f : field_differs(get(old, f, ""), get(new, f, "")))

\* the rendered delta of one tracked field
change_text(old, new, f) ==
    LET ov == get(old, f, "")
        nv == get(new, f, "")
    IN  IF f = "Rank" THEN ov \o " " \o rank_arrow(ov, nv) \o " " \o nv
        ELSE ov \o " > " \o nv

\* the changes dict of one matched row: Rank first when present, then the
\* other differing fields in compare_fields order
format_changes(old, new) ==
    LET fs    == raw_changes(old, new)
        isRank(f) == f = "Rank"
        notRank(f) == f # "Rank"
        order == SelectSeq(fs, isRank) \o SelectSeq(fs, notRank)
    IN  [i \in 1..Len(order) |-> <<order[i], change_text(old, new, order[i])>>]

RECURSIVE added_changed(_, _, _)
added_changed(prev_map, curr_map, n) ==
    IF n = 0 THEN [added |-> <<>>, changed |-> <<>>]
    ELSE LET acc == added_changed(prev_map, curr_map, n - 1)
             k   == curr_map[n][1]
             r   == curr_map[n][2]
         IN  IF ~dict_has(prev_map, k)
             THEN [acc EXCEPT !.added = Append(@, r)]
             ELSE LET old == dict_get(prev_map, k)
                  IN  IF raw_changes(old, r) # <<>>
                      THEN [acc EXCEPT !.changed =
                               Append(@, [label   |-> label_of(r),
                                          changes |-> format_changes(old, r)])]
                      ELSE acc

removed_rows(prev_map, curr_map) ==
    LET gone(item) == ~dict_has(curr_map, item[1])
        items == SelectSeq(prev_map, gone)
    IN  [i \in 1..Len(items) |-> items[i][2]]

\* prev_rows is an optional list of rows (None when nothing was stored)
diff_rows(prev_rows, curr_rows) ==
    LET prev_map == IF ~prev_rows.isNone /\ prev_rows.val # <<>>
                    THEN index_rows(prev_rows.val, Len(prev_rows.val))
                    ELSE <<>>
        curr_map == index_rows(curr_rows, Len(curr_rows))
        ac       == added_changed(prev_map, curr_map, Len(curr_map))
    IN  [added   |-> ac.added,
         removed |-> removed_rows(prev_map, curr_map),
         changed |-> ac.changed]

-----------------------------------------------------------------------------
(* table_to_markdown and build_messages.                                    *)

max_cols == 6

max_rows == 15

added_limit == 15

removed_limit == 15

changed_limit == 20

md_limit == 1900

txt_limit == 3500

TruncMark == "\n...(truncated)..."

\* seq[:n]
Take(seq, n) == SubSeq(seq, 1, Min(n, Len(seq)))

\* sep.join(parts)
RECURSIVE join(_, _)
join(sep, parts) ==
    IF Len(parts) = 0 THEN ""
    ELSE IF Len(parts) = 1 THEN parts[1]
    ELSE parts[1] \o sep \o join(sep, Tail(parts))

table_to_markdown(headers, rows) ==
    LET hs     == Take(headers, max_cols)
        rs     == Take(rows, max_rows)
        cells(r) == [j \in 1..Len(hs) |-> get(r, hs[j], "")]
        head   == IF Len(hs) > 0
                  THEN join(" | ", hs) \o "\n"
                       \o join(" | ", [j \in 1..Len(hs) |-> "---"]) \o "\n"
                  ELSE ""
        body   == join("", [i \in 1..Len(rs) |-> join(" | ", cells(rs[i])) \o "\n"])
        md     == strip(head \o body)
    IN  IF md = "" THEN "(no rows)" ELSE md

\* one line of the Added or Removed section
row_line(mark, r) ==
    rstrip(mark \o " " \o label_of(r) \o "  " \o get(r, "Rank", ""))

\* the lines one entry of d["changed"] contributes to the Changed section:
\* the label is printed only on the Rank line
entry_lines(e) ==
    LET isRank(c)  == c[1] = "Rank"
        notRank(c) == c[1] # "Rank"
        rk   == SelectSeq(e.changes, isRank)
        rest == SelectSeq(e.changes, notRank)
    IN  (IF Len(rk) > 0 /\ rk[1][2] # ""
         THEN << "*! " \o e.label \o ": Rank " \o rk[1][2] >>
         ELSE <<>>)
        \o [i \in 1..Len(rest) |-> "   " \o rest[i][1] \o ": " \o rest[i][2]]

RECURSIVE flatten(_)
flatten(ss) == IF Len(ss) = 0 THEN <<>> ELSE Head(ss) \o flatten(Tail(ss))

\* msg[:limit] + marker when the assembled text is longer than limit
truncate(msg, limit) ==
    IF Len(msg) > limit THEN SubSeq(msg, 1, limit) \o TruncMark ELSE msg

\* the initial-snapshot branch: returned as assembled
initial_messages(url, md_table) ==
    [md  |-> "ZwiftPower initial snapshot:\n" \o url \o "\n\n'''md\n"
             \o md_table \o "\n'''",
     txt |-> "ZwiftPower initial snapshot:\n" \o url \o "\n\n" \o md_table]

\* build_messages: the two texts, with the locals d (the diff, None when no
\* diff was computed) and lines (of the Changed section) kept beside them
build_messages(url, headers, rows, prev_rows) ==
    IF prev_rows.isNone
    THEN LET m == initial_messages(url, table_to_markdown(headers, rows))
         IN  [md |-> m.md, txt |-> m.txt, d |-> NoneVal, lines |-> <<>>]
    ELSE
    LET d       == diff_rows(prev_rows, rows)
        head    == "ZwiftPower change detected:\n" \o url
        addL    == LET a == Take(d.added, added_limit)
                   IN  [i \in 1..Len(a) |-> row_line("+", a[i])]
        remL    == LET r == Take(d.removed, removed_limit)
                   IN  [i \in 1..Len(r) |-> row_line("-", r[i])]
        chg     == Take(d.changed, changed_limit)
        chgL    == flatten([i \in 1..Len(chg) |-> entry_lines(chg[i])])
        sec_md(title, lines) ==
            << "\n**" \o title \o "**\n'''\n" \o join("\n", lines) \o "\n'''" >>
        sec_txt(title, lines) ==
            << "\n" \o title \o "\n" \o join("\n", lines) >>
        md1     == <<head>>
                   \o (IF Len(d.added) > 0 THEN sec_md("Added", addL) ELSE <<>>)
                   \o (IF Len(d.removed) > 0 THEN sec_md("Removed", remL) ELSE <<>>)
                   \o (IF Len(d.changed) > 0 THEN sec_md("Changed", chgL) ELSE <<>>)
        txt1    == <<head>>
                   \o (IF Len(d.added) > 0 THEN sec_txt("Added", addL) ELSE <<>>)
                   \o (IF Len(d.removed) > 0 THEN sec_txt("Removed", remL) ELSE <<>>)
                   \o (IF Len(d.changed) > 0 THEN sec_txt("Changed", chgL) ELSE <<>>)
        md_table == table_to_markdown(headers, rows)
        parts_md  == IF Len(md1) = 1
                     THEN Append(md1, "\n'''md\n" \o md_table \o "\n'''")
                     ELSE md1
        parts_txt == IF Len(md1) = 1
                     THEN Append(txt1, "\n" \o md_table)
                     ELSE txt1
    IN  [md    |-> truncate(join("\n", parts_md), md_limit),
         txt   |-> truncate(join("\n", parts_txt), txt_limit),
         d     |-> Some(d),
         lines |-> chgL]

TARGET_URL == "https://zwiftpower.com/team.php?id=1"

-----------------------------------------------------------------------------
(* The parts of the state a specification does not use stay switched off.   *)

StabOff ==
    /\ stab_pc = "off"
    /\ stab_x = ""
    /\ stab_once = None
    /\ stab_twice = None

DiffOff ==
    /\ df_pc = "off"
    /\ df_prev = NoneVal
    /\ df_curr = <<>>
    /\ df_out = NoneVal

RenderOff ==
    /\ rn_pc = "off"
    /\ rn_headers = <<>>
    /\ rn_prev = NoneVal
    /\ rn_curr = <<>>
    /\ rn_msg = NoneVal

NoFile == [exists |-> FALSE]

TextFile(t) == [exists |-> TRUE, text |-> t]

\* last_table.json holding rows, and the same file cut short by a crash
JsonFile(rows) == [exists |-> TRUE, ok |-> TRUE, rows |-> rows]

CorruptJson == [exists |-> TRUE, ok |-> FALSE]

Channels == <<"Generic", "Discord", "Slack">>

ChannelSet == { Channels[i] : i \in 1..Len(Channels) }

NoLocals ==
    [html |-> "", current_hash |-> "", last_hash |-> "", headers |-> <<>>,
     rows |-> <<>>, prev_rows |-> NoneVal, msg |-> NoneVal]

NoWrites == [html |-> 0, json |-> 0, hash |-> 0]

CycleOff ==
    /\ webhooks = [c \in ChannelSet |-> FALSE]
    /\ cache_file = NoFile
    /\ snapshot_json = NoFile
    /\ snapshot_html = NoFile
    /\ pc = "off"
    /\ cycle = 0
    /\ loc = NoLocals
    /\ sent = FALSE
    /\ ni = 0
    /\ posts = <<>>
    /\ stdout = <<>>
    /\ writes = NoWrites
    /\ store0 = [hash |-> NoFile, json |-> NoFile, html |-> NoFile]
    /\ notified = {}

-----------------------------------------------------------------------------
(* SpecStab: stabilise_html applied once and twice to a bounded input.      *)

\* pieces of markup the inputs are assembled from
Frags == { "i", "id=\"x\"", "d=\"y\"", " ", "\n", "a",
           "data-k=\"v\"", "datetime=\"t\"", "time=\"t\"" }

SeqsUpTo(S, n) == UNION { [1..k -> S] : k \in 0..n }

StabInputs == { join("", fs) : fs \in SeqsUpTo(Frags, MaxFrags) }

StabInit ==
    /\ stab_pc = "in"
    /\ stab_x \in StabInputs
    /\ stab_once = None
    /\ stab_twice = None
    /\ DiffOff /\ RenderOff /\ CycleOff

StabiliseOnce ==
    /\ stab_pc = "in"
    /\ stab_once' = stabilise_html(stab_x)
    /\ stab_pc' = "once"
    /\ UNCHANGED <<stab_x, stab_twice, diff_vars, render_vars, cycle_vars>>

StabiliseTwice ==
    /\ stab_pc = "once"
    /\ stab_twice' = stabilise_html(stab_once)
    /\ stab_pc' = "twice"
    /\ UNCHANGED <<stab_x, stab_once, diff_vars, render_vars, cycle_vars>>

StabNext == StabiliseOnce \/ StabiliseTwice

SpecStab == StabInit /\ [][StabNext]_vars

\* C6: stabilise_html(stabilise_html(x)) = stabilise_html(x) for every input x.
C6_Idempotent == stab_pc = "twice" => stab_twice = stab_once

-----------------------------------------------------------------------------
(* SpecDiff: diff_rows applied to a previous and a current list of rows.    *)

rA5  == [ZID |-> "7", Name |-> "A", Rank |-> "5", Status |-> "active"]
rA2  == [ZID |-> "7", Name |-> "A", Rank |-> "2", Status |-> "active"]
rAin == [ZID |-> "7", Name |-> "A", Rank |-> "5", Status |-> "inactive"]
rAT  == [ZID |-> "7", Name |-> "A", Rank |-> "5", Status |-> "active",
         Team |-> "T"]
rB   == [ZID |-> " ", Name |-> "B", Rank |-> "n/a"]
rB9  == [Name |-> " B", Rank |-> "9"]
rU   == [Team |-> "T"]

DiffPool == {rA5, rAin, rAT, rB, rB9, rU}

DiffInit ==
    /\ df_pc = "in"
    /\ df_prev \in {NoneVal} \cup { Some(rs) : rs \in SeqsUpTo(DiffPool, MaxRows) }
    /\ df_curr \in SeqsUpTo(DiffPool, MaxRows)
    /\ df_out = NoneVal
    /\ StabOff /\ RenderOff /\ CycleOff

DiffRows ==
    /\ df_pc = "in"
    /\ df_out' = Some(diff_rows(df_prev, df_curr))
    /\ df_pc' = "done"
    /\ UNCHANGED <<df_prev, df_curr, stab_vars, render_vars, cycle_vars>>

DiffNext == DiffRows

SpecDiff == DiffInit /\ [][DiffNext]_vars

\* what the diff is specified to be, by keys
RowList(opt) == IF opt.isNone THEN <<>> ELSE opt.val

\* the key the claim gives a row: its first non-empty trimmed field among
\* ZID then Name, else its full sorted content
ClaimKey(r) ==
    IF strip(get(r, "ZID", "")) # "" THEN <<"ZID", strip(r["ZID"])>>
    ELSE IF strip(get(r, "Name", "")) # "" THEN <<"Name", strip(r["Name"])>>
    ELSE <<"_row", json_dumps(r)>>

KeysOf(rows) == { ClaimKey(rows[i]) : i \in 1..Len(rows) }

\* the index entry of key k: the last row of the list with that key
RowOf(rows, k) ==
    rows[CHOOSE i \in 1..Len(rows) :
            /\ ClaimKey(rows[i]) = k
            /\ \A j \in 1..Len(rows) : ClaimKey(rows[j]) = k => j <= i]

TrackedFields == { compare_fields[i] : i \in 1..Len(compare_fields) }

DeltaFields(old, new) ==
    { f \in TrackedFields : get(old, f, "") # get(new, f, "") }

Range(seq) == { seq[i] : i \in 1..Len(seq) }

AddedKeys == KeysOf(df_curr) \ KeysOf(RowList(df_prev))

RemovedKeys == KeysOf(RowList(df_prev)) \ KeysOf(df_curr)

ChangedKeys ==
    { k \in KeysOf(df_curr) \cap KeysOf(RowList(df_prev)) :
        DeltaFields(RowOf(RowList(df_prev), k), RowOf(df_curr, k)) # {} }

EntryMatches(e, k) ==
    /\ e.label = label_of(RowOf(df_curr, k))
    /\ { e.changes[j][1] : j \in 1..Len(e.changes) }
         = DeltaFields(RowOf(RowList(df_prev), k), RowOf(df_curr, k))
    /\ Len(e.changes)
         = Cardinality(DeltaFields(RowOf(RowList(df_prev), k), RowOf(df_curr, k)))

\* C7: added is exactly the rows of the keys only curr's index has, removed
\* exactly the rows of the keys only prev's index has, changed has exactly one
\* entry per key of both indices whose rows differ in a tracked field, with
\* exactly the differing tracked fields as its delta; identical prev and curr
\* give three empty lists.
C7_DiffByKey ==
    df_pc = "done" =>
        LET d == df_out.val IN
        /\ Len(d.added) = Cardinality(AddedKeys)
        /\ Range(d.added) = { RowOf(df_curr, k) : k \in AddedKeys }
        /\ Len(d.removed) = Cardinality(RemovedKeys)
        /\ Range(d.removed) = { RowOf(RowList(df_prev), k) : k \in RemovedKeys }
        /\ Len(d.changed) = Cardinality(ChangedKeys)
        /\ \A k \in ChangedKeys :
              \E i \in 1..Len(d.changed) : EntryMatches(d.changed[i], k)
        /\ \A i \in 1..Len(d.changed) :
              \E k \in ChangedKeys : EntryMatches(d.changed[i], k)
        /\ (RowList(df_prev) = df_curr =>
              Len(d.added) = 0 /\ Len(d.removed) = 0 /\ Len(d.changed) = 0)

\* a diff with an added, a removed and a changed row at once
C7_Witness ==
    /\ df_pc = "done"
    /\ Len(df_out.val.added) > 0
    /\ Len(df_out.val.removed) > 0
    /\ Len(df_out.val.changed) > 0

-----------------------------------------------------------------------------
(* SpecRender: build_messages applied to a dataset and an optional previous *)
(* list of rows.                                                            *)

Rep10(s) == s \o s \o s \o s \o s \o s \o s \o s \o s \o s

\* a cell text of two thousand characters
LongName == LET k == Rep10(Rep10(Rep10("x"))) IN k \o k

rLong == [ZID |-> "9", Name |-> LongName, Rank |-> "1"]

RenderPool == {rA5, rA2, rAin, rB, rU, rLong}

RenderHeaders == { <<>>, <<"Name", "Rank", "Status">> }

RenderInit ==
    /\ rn_pc = "in"
    /\ rn_headers \in RenderHeaders
    /\ rn_prev \in {NoneVal}
                   \cup { Some(rs) : rs \in SeqsUpTo(RenderPool, MaxRenderRows) }
    /\ rn_curr \in SeqsUpTo(RenderPool, MaxRenderRows)
    /\ rn_msg = NoneVal
    /\ StabOff /\ DiffOff /\ CycleOff

Render ==
    /\ rn_pc = "in"
    /\ rn_msg' = Some(build_messages(TARGET_URL, rn_headers, rn_curr, rn_prev))
    /\ rn_pc' = "done"
    /\ UNCHANGED <<rn_headers, rn_prev, rn_curr, stab_vars, diff_vars, cycle_vars>>

RenderNext == Render

SpecRender == RenderInit /\ [][RenderNext]_vars

\* C9: every entry of the Changed section carries its row's label, whether or
\* not Rank is among the changed fields.
C9_EveryEntryLabelled ==
    (rn_pc = "done" /\ ~rn_msg.val.d.isNone) =>
        LET shown == Take(rn_msg.val.d.val.changed, changed_limit) IN
        \A i \in 1..Len(shown) :
            \E n \in 1..Len(rn_msg.val.lines) :
                StartsAt(rn_msg.val.lines[n], 1, "*! " \o shown[i].label \o ":")

\* a text capped at limit: short enough, or cut to limit with the marker
Capped(text, limit) ==
    \/ Len(text) <= limit
    \/ /\ Len(text) = limit + Len(TruncMark)
       /\ SubSeq(text, limit + 1, Len(text)) = TruncMark

\* C10: every returned message, initial snapshot or diff, has its markup form
\* capped at 1900 and its plain form at 3500 characters before the marker.
C10_BothCapped ==
    rn_pc = "done" =>
        /\ Capped(rn_msg.val.md, md_limit)
        /\ Capped(rn_msg.val.txt, txt_limit)

-----------------------------------------------------------------------------
(* Spec: the monitor run again and again by its external trigger.  Each run  *)
(* is main() from the fetch to the end; a run may die at any step (a kill,   *)
(* or an exception that main's caller turns into exit 1), and the store      *)
(* files stay as they are at that moment.                                    *)

\* hashlib.sha256(text).hexdigest(): a digest without whitespace that differs
\* whenever the text differs (collisions are not modelled)
sha256_hexdigest(text) == "sha256:" \o text

\* What the page fetcher can return.  BeautifulSoup's parse of the markup is
\* not modelled: each page carries the headers and rows parse_table gets
\* from it.  The first two pages differ in a regenerated id only.
Pages ==
    { [html    |-> "<table id=\"r1\"> A  5</table>",
       headers |-> <<"Name", "Rank", "Status">>, rows |-> <<rA5>>],
      [html    |-> "<table id=\"r2\"> A  5</table>",
       headers |-> <<"Name", "Rank", "Status">>, rows |-> <<rA5>>],
      [html    |-> "<table id=\"r1\"> A  2</table>",
       headers |-> <<"Name", "Rank", "Status">>, rows |-> <<rA2>>],
      [html    |-> "<p>login</p>",
       headers |-> <<>>, rows |-> <<>>] }

parse_table(page) == [headers |-> page.headers, rows |-> page.rows]

\* open(CACHE_FILE).read().strip() if the file exists else ""
read_cache_file(f) == IF f.exists THEN strip(f.text) ELSE ""

\* a slip in reading the snapshot: an unreadable file counts as an empty list
read_snapshot_json_empty(f) ==
    IF ~f.exists THEN NoneVal
    ELSE IF f.ok THEN Some(f.rows) ELSE Some(<<>>)

\* prev_rows: json.load of the snapshot when it exists, None when it does not
\* exist or cannot be parsed
read_snapshot_json(f) ==
    IF ~f.exists THEN NoneVal
    ELSE IF f.ok THEN Some(f.rows) ELSE NoneVal

\* a slip in the comparison: every cycle counts as a change
hash_changed_always(current_hash, last_hash) == TRUE

\* current_hash != last_hash
hash_changed(current_hash, last_hash) == current_hash # last_hash

\* a slip in notify: a failed send prints nothing
send_log_silent(name, ok) ==
    IF ok THEN << "Y Sent to " \o name >> ELSE <<>>

\* what notify prints about one send
send_log(name, ok) ==
    IF ok THEN << "Y Sent to " \o name >>
    ELSE << "X Failed to send to " \o name \o ": error" >>

\* a slip in notify: the first failed send ends the dispatch
after_send_stop(i, ok) == IF ok THEN i + 1 ELSE Len(Channels) + 1

\* the channel notify turns to after a send: the exception of a failed send
\* is caught, and the next channel follows either way
after_send(i, ok) == i + 1

NoneDeliveredLine == "(No webhooks delivered)"

NoWebhookWarning ==
    "WARNING: No webhook set (WEBHOOK_URL / DISCORD_WEBHOOK_URL / SLACK_WEBHOOK_URL)."

Init ==
    /\ webhooks \in [ChannelSet -> BOOLEAN]
    /\ cache_file = NoFile
    /\ snapshot_json = NoFile
    /\ snapshot_html = NoFile
    /\ pc = "start"
    /\ cycle = 0
    /\ loc = NoLocals
    /\ sent = FALSE
    /\ ni = 0
    /\ posts = <<>>
    /\ stdout = <<>>
    /\ writes = NoWrites
    /\ store0 = [hash |-> NoFile, json |-> NoFile, html |-> NoFile]
    /\ notified = {}
    /\ StabOff /\ DiffOff /\ RenderOff

others == <<stab_vars, diff_vars, render_vars>>

\* the module guards, the fetch, the fingerprint, the reads of the store
\* (the DEBUG line with the row count is not among the modelled output)
Check(page) ==
    /\ pc = "start"
    /\ cycle < MaxCycles
    /\ cycle' = cycle + 1
    /\ loc' = [html         |-> page.html,
               current_hash |-> sha256_hexdigest(stabilise_html(page.html)),
               last_hash    |-> read_cache_file(cache_file),
               headers      |-> parse_table(page).headers,
               rows         |-> parse_table(page).rows,
               prev_rows    |-> read_snapshot_json(snapshot_json),
               msg          |-> NoneVal]
    /\ stdout' = IF \A c \in ChannelSet : ~webhooks[c]
                 THEN <<NoWebhookWarning>> ELSE <<>>
    /\ posts' = <<>>
    /\ writes' = NoWrites
    /\ store0' = [hash |-> cache_file, json |-> snapshot_json,
                  html |-> snapshot_html]
    /\ sent' = FALSE
    /\ ni' = 0
    /\ pc' = "compare"
    /\ UNCHANGED <<webhooks, cache_file, snapshot_json, snapshot_html,
                   notified, others>>

NoChange ==
    /\ pc = "compare"
    /\ ~hash_changed(loc.current_hash, loc.last_hash)
    /\ stdout' = Append(stdout, "No change.")
    /\ pc' = "done"
    /\ UNCHANGED <<webhooks, cache_file, snapshot_json, snapshot_html, cycle,
                   loc, sent, ni, posts, writes, store0, notified, others>>

SaveHtml ==
    /\ pc = "compare"
    /\ hash_changed(loc.current_hash, loc.last_hash)
    /\ snapshot_html' = TextFile(loc.html)
    /\ writes' = [writes EXCEPT !.html = @ + 1]
    /\ pc' = "save_json"
    /\ UNCHANGED <<webhooks, cache_file, snapshot_json, cycle, loc, sent, ni,
                   posts, stdout, store0, notified, others>>

SaveJson ==
    /\ pc = "save_json"
    /\ snapshot_json' = JsonFile(loc.rows)
    /\ writes' = [writes EXCEPT !.json = @ + 1]
    /\ pc' = "save_hash"
    /\ UNCHANGED <<webhooks, cache_file, snapshot_html, cycle, loc, sent, ni,
                   posts, stdout, store0, notified, others>>

SaveHash ==
    /\ pc = "save_hash"
    /\ cache_file' = TextFile(loc.current_hash)
    /\ writes' = [writes EXCEPT !.hash = @ + 1]
    /\ pc' = "build"
    /\ UNCHANGED <<webhooks, snapshot_json, snapshot_html, cycle, loc, sent,
                   ni, posts, stdout, store0, notified, others>>

BuildMessages ==
    /\ pc = "build"
    /\ loc' = [loc EXCEPT !.msg =
                 Some(build_messages(TARGET_URL, loc.headers, loc.rows,
                                     loc.prev_rows))]
    /\ pc' = "call_notify"
    /\ UNCHANGED <<webhooks, cache_file, snapshot_json, snapshot_html, cycle,
                   sent, ni, posts, stdout, writes, store0, notified, others>>

\* notify is entered
NotifyBegin ==
    /\ pc = "call_notify"
    /\ sent' = FALSE
    /\ ni' = 1
    /\ notified' = notified \cup {loc.current_hash}
    /\ pc' = "notify"
    /\ UNCHANGED <<webhooks, cache_file, snapshot_json, snapshot_html, cycle,
                   loc, posts, stdout, writes, store0, others>>

\* one configured channel is tried; the send succeeds or fails (an error
\* status, a transport error, the timeout)
NotifySend(ok) ==
    /\ pc = "notify"
    /\ ni <= Len(Channels)
    /\ webhooks[Channels[ni]]
    /\ posts' = Append(posts,
                   [name |-> Channels[ni],
                    body |-> IF Channels[ni] = "Slack" THEN loc.msg.val.txt
                             ELSE loc.msg.val.md,
                    ok   |-> ok])
    /\ stdout' = stdout \o send_log(Channels[ni], ok)
    /\ sent' = (sent \/ ok)
    /\ ni' = after_send(ni, ok)
    /\ UNCHANGED <<webhooks, cache_file, snapshot_json, snapshot_html, pc,
                   cycle, loc, writes, store0, notified, others>>

\* a channel without URL is passed over
NotifySkip ==
    /\ pc = "notify"
    /\ ni <= Len(Channels)
    /\ ~webhooks[Channels[ni]]
    /\ ni' = ni + 1
    /\ UNCHANGED <<webhooks, cache_file, snapshot_json, snapshot_html, pc,
                   cycle, loc, sent, posts, stdout, writes, store0, notified,
                   others>>

NotifyEnd ==
    /\ pc = "notify"
    /\ ni > Len(Channels)
    /\ stdout' = IF sent THEN stdout ELSE Append(stdout, NoneDeliveredLine)
    /\ pc' = "finish"
    /\ UNCHANGED <<webhooks, cache_file, snapshot_json, snapshot_html, cycle,
                   loc, sent, ni, posts, writes, store0, notified, others>>

Finish ==
    /\ pc = "finish"
    /\ stdout' = Append(stdout, "Change detected. Stable hash & snapshots updated.")
    /\ pc' = "done"
    /\ UNCHANGED <<webhooks, cache_file, snapshot_json, snapshot_html, cycle,
                   loc, sent, ni, posts, writes, store0, notified, others>>

\* the process is gone: its locals with it, the files stay
Gone ==
    /\ pc' = "start"
    /\ loc' = NoLocals
    /\ sent' = FALSE
    /\ ni' = 0
    /\ posts' = <<>>
    /\ stdout' = <<>>
    /\ writes' = NoWrites
    /\ store0' = [hash |-> cache_file', json |-> snapshot_json',
                  html |-> snapshot_html']
    /\ UNCHANGED <<webhooks, cycle, notified, others>>

Exit ==
    /\ pc = "done"
    /\ UNCHANGED <<cache_file, snapshot_json, snapshot_html>>
    /\ Gone

\* the run dies between two steps
Crash ==
    /\ pc \in {"compare", "save_json", "save_hash", "build", "call_notify",
               "notify", "finish"}
    /\ UNCHANGED <<cache_file, snapshot_json, snapshot_html>>
    /\ Gone

\* the run dies inside json.dump: the file is open for writing and cut short
CrashInJsonDump ==
    /\ pc = "save_json"
    /\ snapshot_json' = CorruptJson
    /\ UNCHANGED <<cache_file, snapshot_html>>
    /\ Gone

\* the run dies inside the write of the hash: the file is left empty
CrashInHashWrite ==
    /\ pc = "save_hash"
    /\ cache_file' = TextFile("")
    /\ UNCHANGED <<snapshot_json, snapshot_html>>
    /\ Gone

Next ==
    \/ \E page \in Pages : Check(page)
    \/ NoChange
    \/ SaveHtml
    \/ SaveJson
    \/ SaveHash
    \/ BuildMessages
    \/ NotifyBegin
    \/ \E ok \in BOOLEAN : NotifySend(ok)
    \/ NotifySkip
    \/ NotifyEnd
    \/ Finish
    \/ Exit
    \/ Crash
    \/ CrashInJsonDump
    \/ CrashInHashWrite

Spec == Init /\ [][Next]_vars

-----------------------------------------------------------------------------
(* The claims about a cycle.                                                *)

Running == pc \notin {"start", "off"}

MsgBuilt == ~loc.msg.isNone

\* notify has tried its last channel and returned
NotifyReturned == pc \in {"finish", "done"} /\ MsgBuilt

StoreWritten == writes.json > 0 \/ writes.hash > 0

\* C1: in a cycle that detects a change the store (fingerprint and rows) is
\* overwritten only after dispatch has been attempted on every configured
\* channel, each file at most once, and the diff is made from the old rows.
C1_StoreAfterDispatch ==
    Running =>
        /\ StoreWritten => NotifyReturned
        /\ writes.json <= 1 /\ writes.hash <= 1
        /\ MsgBuilt => loc.prev_rows = read_snapshot_json(store0.json)

\* C2: no crash leaves the store holding a fingerprint for which dispatch was
\* never attempted; between two runs, the stored fingerprint is one notify
\* was called for.
C2_AtLeastOnce ==
    pc = "start" =>
        (cache_file.exists /\ cache_file.text # "" =>
            cache_file.text \in notified)

PostsTo(c) == LET isC(p) == p.name = c IN SelectSeq(posts, isC)

Count(lines, l) == LET isL(x) == x = l IN Len(SelectSeq(lines, isL))

SuccessLine(c) == "Y Sent to " \o c

FailureLine(c) == "X Failed to send to " \o c \o ": error"

\* C3: dispatch tries every configured channel exactly once, whichever sends
\* fail, and the outcome recorded for a channel is success exactly when its
\* own send succeeded; a channel that is not configured is never tried.
C3_EveryChannelOnce ==
    NotifyReturned =>
        \A c \in ChannelSet :
            IF webhooks[c]
            THEN /\ Len(PostsTo(c)) = 1
                 /\ Count(stdout, SuccessLine(c))
                      = (IF PostsTo(c)[1].ok THEN 1 ELSE 0)
                 /\ Count(stdout, FailureLine(c))
                      = (IF PostsTo(c)[1].ok THEN 0 ELSE 1)
            ELSE /\ Len(PostsTo(c)) = 0
                 /\ Count(stdout, SuccessLine(c)) = 0
                 /\ Count(stdout, FailureLine(c)) = 0

\* three channels, the second one failing: two successes and one failure
C3_Witness ==
    /\ NotifyReturned
    /\ \A c \in ChannelSet : webhooks[c]
    /\ [i \in 1..Len(posts) |-> <<posts[i].name, posts[i].ok>>]
         = << <<"Generic", TRUE>>, <<"Discord", FALSE>>, <<"Slack", TRUE>> >>
    /\ Count(stdout, FailureLine("Discord")) = 1
    /\ Count(stdout, SuccessLine("Generic")) = 1
    /\ Count(stdout, SuccessLine("Slack")) = 1

\* C4: a cycle whose fingerprint equals the stored one sends nothing and
\* leaves the store as it found it; the first run, with nothing stored,
\* always counts as a change.
C4_NoChangeNoEffect ==
    Running =>
        /\ loc.current_hash = loc.last_hash =>
              /\ posts = <<>>
              /\ writes = NoWrites
              /\ cache_file = store0.hash
              /\ snapshot_json = store0.json
              /\ snapshot_html = store0.html
        /\ ~store0.hash.exists => loc.current_hash # loc.last_hash

\* a finished cycle without change, on markup that differs from the stored
\* markup (in a regenerated id only)
C4_Witness ==
    /\ pc = "done"
    /\ loc.current_hash = loc.last_hash
    /\ snapshot_html.exists
    /\ snapshot_html.text # loc.html

EndsWith(text, suffix) ==
    /\ Len(suffix) <= Len(text)
    /\ SubSeq(text, Len(text) - Len(suffix) + 1, Len(text)) = suffix

\* C5: when the run found no stored rows, or could not read them, the message
\* is the initial-snapshot message with the preview of the current dataset,
\* never a change message, and no diff is computed.
C5_AbsentPrevInitial ==
    (Running /\ MsgBuilt /\ (~store0.json.exists \/ ~store0.json.ok)) =>
        LET m       == loc.msg.val
            preview == table_to_markdown(loc.headers, loc.rows)
        IN  /\ m.d.isNone
            /\ StartsAt(m.md, 1, "ZwiftPower initial snapshot:\n")
            /\ StartsAt(m.txt, 1, "ZwiftPower initial snapshot:\n")
            /\ EndsWith(m.md, preview \o "\n'''")
            /\ EndsWith(m.txt, preview)

\* a message built after an unreadable rows file, for an empty dataset
C5_Witness ==
    /\ Running /\ MsgBuilt
    /\ store0.json.exists /\ ~store0.json.ok
    /\ loc.rows = <<>>
    /\ EndsWith(loc.msg.val.txt, "(no rows)")

\* the lines notify itself prints
NotifyOutput ==
    LET isNotify(l) == \/ l = NoneDeliveredLine
                       \/ StartsAt(l, 1, "Y Sent to ")
                       \/ StartsAt(l, 1, "X Failed to send to ")
    IN  SelectSeq(stdout, isNotify)

\* C8: what dispatch reports with no channel configured differs from what it
\* reports when channels are configured and every one of them failed.
C8_ZeroVsAllFailed ==
    NotifyReturned =>
        /\ (\A c \in ChannelSet : ~webhooks[c])
              => NotifyOutput = <<NoneDeliveredLine>>
        /\ ((\E c \in ChannelSet : webhooks[c])
               /\ (\A i \in 1..Len(posts) : ~posts[i].ok))
              => NotifyOutput # <<NoneDeliveredLine>>

\* all three channels configured, all three sends failed
C8_Witness ==
    /\ NotifyReturned
    /\ \A c \in ChannelSet : webhooks[c]
    /\ Len(posts) = Len(Channels)
    /\ \A i \in 1..Len(posts) : ~posts[i].ok
    /\ ~sent

=============================================================================
